---- MODULE Spec2Model ----
(***************************************************************************)
(* A model of src/shuffileid.py: the class ShuffleID, a keyed reversible   *)
(* shuffle of the unsigned integers of a fixed bit width.                  *)
(*                                                                         *)
(* The object's attributes are the variables bit_size, shuffles, _size,    *)
(* _x_mask, _y_mask and _max_shuffle.  Construction (ShuffleID(...) and    *)
(* ShuffleID.from_seed(...)) and the two methods encode and decode are the *)
(* actions.  Python integers are unbounded, so the arithmetic is that of   *)
(* the integers; & | << >> are computed bit by bit on two's complement.    *)
(***************************************************************************)
EXTENDS Integers, Sequences, FiniteSets, TLC

VARIABLES
    constructed,    \* TRUE once __init__ has returned an object
    ctor,           \* outcome of the last construction attempt
    bit_size,       \* self.bit_size
    shuffles,       \* self.shuffles: a sequence of round tables
    _size,          \* self._size
    _x_mask,        \* self._x_mask
    _y_mask,        \* self._y_mask
    _max_shuffle,   \* self._max_shuffle
    seeded,         \* the arguments of the call of from_seed, if one was made
    last,           \* the last completed call of encode or decode
    threads         \* the calls in flight, one per thread (SpecThreads)

self == <<bit_size, shuffles, _size, _x_mask, _y_mask, _max_shuffle>>
vars == <<constructed, ctor, bit_size, shuffles, _size, _x_mask, _y_mask,
          _max_shuffle, seeded, last, threads>>

-----------------------------------------------------------------------------
(* Bounds of the model.                                                    *)

\* bit_size ranges over -1 .. MaxBitSize
MaxBitSize == 4
\* the number of round tables ranges over 0 .. MaxRounds
MaxRounds == 2
\* call arguments range from MaxExtra below 0 to MaxExtra above 2^bit_size - 1
MaxExtra == 2
\* from_seed is explored while rounds * size (the number of draws) <= MaxDraws
MaxDraws == 8
\* the number of threads calling into one object
NumThreads == 2

\* seeds range over 0 .. MaxSeed
MaxSeed == 1
\* tables of at most MaxFullLen entries are enumerated in full, longer ones
\* sampled
MaxFullLen == 4
\* and in full only in schedules of at most MaxFullCells entries in all
MaxFullCells == 8
\* the explicit schedules tried hold at most MaxCells entries in all
MaxCells == 16

-----------------------------------------------------------------------------
(* Python's integer operators.                                             *)

RECURSIVE Pow2(_)
\* 2 ** n for n >= 0
Pow2(n) == IF n <= 0 THEN 1 ELSE 2 * Pow2(n - 1)

RECURSIVE BitAnd(_, _)
\* a & b for b >= 0 and any a (two's complement: a % 2 is the low bit of a and
\* a \div 2, which rounds down, is a >> 1)
BitAnd(a, b) ==
    IF b = 0 THEN 0
    ELSE (a % 2) * (b % 2) + 2 * BitAnd(a \div 2, b \div 2)

\* a | b for a, b >= 0
BitOr(a, b) == a + b - BitAnd(a, b)

\* a << n for n >= 0
ShiftLeft(a, n) == a * Pow2(n)

\* a >> n for n >= 0
ShiftRight(a, n) == a \div Pow2(n)

\* len(t)
PyLen(t) == Len(t)

\* whether t[i] raises IndexError (a Python list takes -len(t) .. len(t)-1)
IndexError(t, i) == i < 0 - PyLen(t) \/ i >= PyLen(t)

\* t[i] of a Python list (0-based, negative indices count from the end)
Item(t, i) == IF i >= 0 THEN t[i + 1] ELSE t[PyLen(t) + i + 1]

-----------------------------------------------------------------------------
(* The bodies of encode and decode.  A call in progress is a record of its *)
(* locals x and y, the set of table indices it has read, and whether a     *)
(* subscript raised IndexError.                                            *)

\* a split that leaves the high half unshifted
SplitUnshifted(value) ==
    [x |-> BitAnd(value, _x_mask),
     y |-> BitAnd(value, _y_mask),
     reads |-> {},
     err |-> FALSE]

\* lines 38-39 and 54-55: the split of value into the two halves
Split(value) ==
    [x |-> BitAnd(value, _x_mask),
     y |-> ShiftRight(BitAnd(value, _y_mask), _size),
     reads |-> {},
     err |-> FALSE]

\* the subscript shuffle[i] inside a call: records the read, raises IndexError
\* when i is outside the list
Read(c, shuffle, i) ==
    [c EXCEPT !.reads = @ \cup {i}, !.err = IndexError(shuffle, i)]

\* line 43: x = (x + shuffle[y]) % max_shuffle
EncodeX(c, shuffle) ==
    IF c.err THEN c
    ELSE LET r == Read(c, shuffle, c.y)
         IN  IF r.err THEN r
             ELSE [r EXCEPT !.x = (c.x + Item(shuffle, c.y)) % _max_shuffle]

\* line 44: y = (y + shuffle[x + size]) % max_shuffle
EncodeY(c, shuffle) ==
    IF c.err THEN c
    ELSE LET r == Read(c, shuffle, c.x + _size)
         IN  IF r.err THEN r
             ELSE [r EXCEPT !.y = (c.y + Item(shuffle, c.x + _size)) % _max_shuffle]

\* both halves updated from the values before the round
EncodeRoundSimultaneous(c, shuffle) ==
    LET a == EncodeX(c, shuffle)
        b == EncodeY(c, shuffle)
    IN  [x |-> a.x, y |-> b.y, reads |-> a.reads \cup b.reads,
         err |-> a.err \/ b.err]

\* lines 43-44: one iteration of encode's loop
EncodeRound(c, shuffle) == EncodeY(EncodeX(c, shuffle), shuffle)

\* y restored by adding the table entry instead of subtracting it
DecodeYAdding(c, shuffle) == EncodeY(c, shuffle)

\* line 59: y = (y - shuffle[x + size]) % max_shuffle
DecodeY(c, shuffle) ==
    IF c.err THEN c
    ELSE LET r == Read(c, shuffle, c.x + _size)
         IN  IF r.err THEN r
             ELSE [r EXCEPT !.y = (c.y - Item(shuffle, c.x + _size)) % _max_shuffle]

\* line 60: x = (x - shuffle[y]) % max_shuffle
DecodeX(c, shuffle) ==
    IF c.err THEN c
    ELSE LET r == Read(c, shuffle, c.y)
         IN  IF r.err THEN r
             ELSE [r EXCEPT !.x = (c.x - Item(shuffle, c.y)) % _max_shuffle]

\* the two halves restored in encode's order
DecodeRoundSwapped(c, shuffle) == DecodeY(DecodeX(c, shuffle), shuffle)

\* lines 59-60: one iteration of decode's loop
DecodeRound(c, shuffle) == DecodeX(DecodeY(c, shuffle), shuffle)

RECURSIVE EncodeLoop(_, _)
\* line 42: for shuffle in self.shuffles, from the k-th table on
EncodeLoop(c, k) ==
    IF k > Len(shuffles) THEN c
    ELSE EncodeLoop(EncodeRound(c, shuffles[k]), k + 1)

RECURSIVE DecodeLoop(_, _)
\* line 58: for shuffle in reversed(self.shuffles), from the k-th table down
DecodeLoop(c, k) ==
    IF k < 1 THEN c
    ELSE DecodeLoop(DecodeRound(c, shuffles[k]), k - 1)

\* lines 46-47 and 62-63: (y << size) | x, returned; an IndexError propagates
Return(c) ==
    IF c.err
    THEN [kind |-> "IndexError", val |-> 0, reads |-> c.reads]
    ELSE [kind |-> "int", val |-> BitOr(ShiftLeft(c.y, _size), c.x),
          reads |-> c.reads]

\* self.encode(value), as a function of the object's state
EncodeCall(value) == Return(EncodeLoop(Split(value), 1))

\* self.decode(value), as a function of the object's state
DecodeCall(value) == Return(DecodeLoop(Split(value), Len(shuffles)))

-----------------------------------------------------------------------------
(* Inputs.                                                                 *)

\* the bit_size arguments tried: one negative, zero, odd and even widths
BitSizes == -1 .. MaxBitSize

\* the rounds arguments tried
Rounds == 0 .. MaxRounds

\* the seed arguments tried
Seeds == 0 .. MaxSeed

\* sample round tables.  Those of 8 entries below 4 are
\* ShuffleID.from_seed(4, s, 1).shuffles[0] for s = 0 .. 5, those of 4 entries
\* below 2 are ShuffleID.from_seed(2, s, 1).shuffles[0] for s = 0, 1, 4.
SampleTables ==
    { <<3, 3, 0, 2, 3, 3, 2, 3>>, <<1, 0, 2, 0, 3, 3, 3, 3>>,
      <<0, 0, 0, 2, 1, 2, 2, 1>>, <<1, 1, 2, 3, 0, 0, 3, 2>>,
      <<1, 2, 0, 3, 3, 1, 0, 0>>, <<2, 2, 0, 3, 1, 0, 1, 0>>,
      <<1, 1, 0, 1>>, <<0, 0, 1, 0>>, <<0, 1, 0, 1>>, <<0, 0>> }

\* the round tables tried where two objects or several threads are explored:
\* two of SampleTables for each of max_shuffle 4 and 2, and the one for
\* max_shuffle 1
KeyTables ==
    { <<3, 3, 0, 2, 3, 3, 2, 3>>, <<1, 2, 0, 3, 3, 1, 0, 0>>,
      <<1, 1, 0, 1>>, <<0, 1, 0, 1>>, <<0, 0>> }

\* whether t is a round table for max_shuffle ms: 2 * ms entries, each in
\* range(ms)
ValidTable(t, ms) ==
    /\ Len(t) = 2 * ms
    /\ \A i \in 1 .. Len(t) : t[i] \in 0 .. ms - 1

\* the round tables tried in a schedule of r tables for max_shuffle ms: every
\* valid one while the tables are short and the schedule small, the valid
\* ones of SampleTables in a larger schedule of at most MaxCells entries
Tables(ms, r) ==
    IF 2 * ms <= MaxFullLen /\ r * 2 * ms <= MaxFullCells
    THEN [1 .. 2 * ms -> 0 .. ms - 1]
    ELSE IF r * 2 * ms <= MaxCells
         THEN {t \in SampleTables : ValidTable(t, ms)}
         ELSE {}

\* the shuffles arguments tried with a given bit_size
Schedules(b) ==
    IF b < 0 THEN {<<>>}
    ELSE UNION {[1 .. r -> Tables(Pow2(b \div 2), r)] : r \in Rounds}

\* the shuffles arguments tried where two objects or several threads are
\* explored: at least one round, tables of KeyTables
KeySchedules(b) ==
    UNION {[1 .. r -> {t \in KeyTables : ValidTable(t, Pow2(b \div 2))}] :
           r \in 1 .. MaxRounds}

\* the value arguments tried: the domain range(2 ** bit_size) and MaxExtra
\* values on either side of it
Values == (0 - MaxExtra) .. (Pow2(bit_size) - 1 + MaxExtra)

-----------------------------------------------------------------------------
(* Construction.                                                           *)

NotSeeded == [called |-> FALSE, bit_size |-> 0, seed |-> 0, rounds |-> 0]

NoCall ==
    [op |-> "none", arg |-> 0, kind |-> "none", val |-> 0, reads |-> {},
     fed |-> FALSE, orig |-> 0]

Idle ==
    [pc |-> "idle", op |-> "none", arg |-> 0, k |-> 0,
     c |-> [x |-> 0, y |-> 0, reads |-> {}, err |-> FALSE],
     ret |-> [kind |-> "none", val |-> 0, reads |-> {}]]

Threads == 1 .. NumThreads

\* a half width rounded up instead of down
HalfSizeCeil(b) == (b + 1) \div 2

\* line 17: bit_size // 2
HalfSize(b) == b \div 2

\* lines 13-20: ShuffleID(b, shs).  With b < 0, 2 ** (b // 2) is a float and
\* line 19 raises TypeError: no object is returned.
__init__(b, shs) ==
    IF HalfSize(b) < 0
    THEN /\ ctor' = [status |-> "TypeError", bit_size |-> b, rounds |-> Len(shs)]
         /\ UNCHANGED <<constructed, self>>
    ELSE /\ bit_size' = b
         /\ shuffles' = shs
         /\ _size' = HalfSize(b)
         /\ _x_mask' = Pow2(HalfSize(b)) - 1
         /\ _y_mask' = ShiftLeft(Pow2(HalfSize(b)) - 1, HalfSize(b))
         /\ _max_shuffle' = Pow2(HalfSize(b))
         /\ constructed' = TRUE
         /\ ctor' = [status |-> "ok", bit_size |-> b, rounds |-> Len(shs)]

\* Random(seed).randrange(n): some member of range(n)
randrange(seed, n) == 0 .. n - 1

\* one round table fewer than asked for
SeedShufflesFewer(b, seed, rounds) ==
    LET max_shuffle == Pow2(b \div 2)
        size == Pow2(b \div 2) * 2
    IN  IF rounds - 1 <= 0 THEN {<<>>}
        ELSE IF b \div 2 < 0 THEN {}
        ELSE [1 .. rounds - 1 -> [1 .. size -> randrange(seed, max_shuffle)]]

\* lines 25-30: the shuffles from_seed may build.  With b < 0 and rounds >= 1,
\* size is a float and range(size) raises TypeError (the empty set here).
SeedShuffles(b, seed, rounds) ==
    LET max_shuffle == Pow2(b \div 2)
        size == Pow2(b \div 2) * 2
    IN  IF rounds <= 0 THEN {<<>>}
        ELSE IF b \div 2 < 0 THEN {}
        ELSE [1 .. rounds -> [1 .. size -> randrange(seed, max_shuffle)]]

\* lines 22-31: ShuffleID.from_seed(b, seed, rounds).  seeded keeps the
\* arguments of the call; ctor and the attributes are set by cls(b, shuffles)
\* at line 31 from the tables built.
from_seed(b, seed, rounds) ==
    /\ seeded' = [called |-> TRUE, bit_size |-> b, seed |-> seed,
                  rounds |-> rounds]
    /\ IF SeedShuffles(b, seed, rounds) = {}
       THEN /\ ctor' = [status |-> "TypeError", bit_size |-> b, rounds |-> 0]
            /\ UNCHANGED <<constructed, self>>
       ELSE \E shs \in SeedShuffles(b, seed, rounds) : __init__(b, shs)

\* the first construction, from explicit tables
New ==
    /\ ~constructed
    /\ ctor.status = "none"
    /\ \E b \in BitSizes : \E shs \in Schedules(b) : __init__(b, shs)
    /\ UNCHANGED <<seeded, last, threads>>

\* the first construction, from a seed
NewFromSeed ==
    /\ ~constructed
    /\ ctor.status = "none"
    /\ \E b \in BitSizes : \E seed \in Seeds : \E rounds \in Rounds :
          /\ rounds * 2 * Pow2(b \div 2) <= MaxDraws
          /\ from_seed(b, seed, rounds)
    /\ UNCHANGED <<last, threads>>

-----------------------------------------------------------------------------
(* Calls that run to completion.                                           *)

\* what a completed call leaves in last: fed says that the argument was the
\* previous call's result, and orig is then the previous call's argument
Completed(op, value, ret, fed, orig) ==
    [op |-> op, arg |-> value, kind |-> ret.kind, val |-> ret.val,
     reads |-> ret.reads, fed |-> fed, orig |-> orig]

\* an encode that consumes the first round table
encodeConsuming(value) ==
    /\ constructed
    /\ last' = Completed("encode", value, EncodeCall(value), FALSE, value)
    /\ shuffles' = IF shuffles = <<>> THEN shuffles ELSE Tail(shuffles)
    /\ UNCHANGED <<constructed, ctor, bit_size, _size, _x_mask, _y_mask,
                   _max_shuffle, seeded, threads>>

\* lines 33-47: self.encode(value)
encode(value) ==
    /\ constructed
    /\ last' = Completed("encode", value, EncodeCall(value), FALSE, value)
    /\ UNCHANGED <<constructed, ctor, self, seeded, threads>>

\* lines 49-63: self.decode(value)
decode(value) ==
    /\ constructed
    /\ last' = Completed("decode", value, DecodeCall(value), FALSE, value)
    /\ UNCHANGED <<constructed, ctor, self, seeded, threads>>

\* lines 105 and 109: self.decode(self.encode(v)), the second call
decode_encoded ==
    /\ constructed
    /\ last.op = "encode" /\ last.kind = "int"
    /\ last' = Completed("decode", last.val, DecodeCall(last.val), TRUE, last.arg)
    /\ UNCHANGED <<constructed, ctor, self, seeded, threads>>

\* self.encode(self.decode(v)), the second call
encode_decoded ==
    /\ constructed
    /\ last.op = "decode" /\ last.kind = "int"
    /\ last' = Completed("encode", last.val, EncodeCall(last.val), TRUE, last.arg)
    /\ UNCHANGED <<constructed, ctor, self, seeded, threads>>

Init ==
    /\ constructed = FALSE
    /\ ctor = [status |-> "none", bit_size |-> 0, rounds |-> 0]
    /\ bit_size = 0
    /\ shuffles = <<>>
    /\ _size = 0
    /\ _x_mask = 0
    /\ _y_mask = 0
    /\ _max_shuffle = 0
    /\ seeded = NotSeeded
    /\ last = NoCall
    /\ threads = [t \in Threads |-> Idle]

Encode == \E value \in Values : encode(value)

Decode == \E value \in Values : decode(value)

Next ==
    \/ New
    \/ Encode
    \/ Decode
    \/ decode_encoded
    \/ encode_decoded

Spec == Init /\ [][Next]_vars

\* construction from a seed alone
NextSeed == NewFromSeed

SpecSeed == Init /\ [][NextSeed]_vars

-----------------------------------------------------------------------------
(* Two keys: once the first object has encoded, a second object            *)
(* B = ShuffleID(bit_size, shs) of the same bit_size takes its place, and  *)
(* the calls that follow are B's.  last keeps the first object's result.   *)

NewKey ==
    /\ ~constructed
    /\ ctor.status = "none"
    /\ \E b \in BitSizes : \E shs \in KeySchedules(b) : __init__(b, shs)
    /\ UNCHANGED <<seeded, last, threads>>

Rekey ==
    /\ constructed
    /\ last.op = "encode"
    /\ \E shs \in KeySchedules(bit_size) : __init__(bit_size, shs)
    /\ UNCHANGED <<seeded, last, threads>>

NextKeys ==
    \/ NewKey
    \/ Rekey
    \/ Encode
    \/ decode_encoded

SpecKeys == Init /\ [][NextKeys]_vars

-----------------------------------------------------------------------------
(* Threads: several calls in flight on one object, a step being the split, *)
(* one iteration of the loop, or the return.                               *)

\* the arguments the threads call with
ThreadValues == 0 .. Pow2(bit_size) - 1

\* lines 36-40 and 52-56: the call is entered and value is split
Begin(t, op, value) ==
    /\ threads[t].pc = "idle"
    /\ threads' = [threads EXCEPT ![t] =
          [pc |-> "loop", op |-> op, arg |-> value,
           k |-> IF op = "encode" THEN 1 ELSE Len(shuffles),
           c |-> Split(value),
           ret |-> Idle.ret]]
    /\ UNCHANGED <<constructed, ctor, self, seeded, last>>

\* one iteration in which x and y are attributes of the object, not locals
RoundShared(t) ==
    /\ threads[t].pc = "loop"
    /\ threads[t].k \in 1 .. Len(shuffles)
    /\ LET th == threads[t]
           c2 == IF th.op = "encode"
                 THEN EncodeRound(th.c, shuffles[th.k])
                 ELSE DecodeRound(th.c, shuffles[th.k])
       IN  threads' = [u \in Threads |->
              IF u = t
              THEN [th EXCEPT !.c = c2,
                              !.k = IF th.op = "encode" THEN @ + 1 ELSE @ - 1]
              ELSE IF threads[u].pc = "loop"
                   THEN [threads[u] EXCEPT !.c = c2]
                   ELSE threads[u]]
    /\ UNCHANGED <<constructed, ctor, self, seeded, last>>

\* lines 42-44 and 58-60: one iteration of the call's loop
Round(t) ==
    /\ threads[t].pc = "loop"
    /\ threads[t].k \in 1 .. Len(shuffles)
    /\ LET th == threads[t]
       IN  threads' = [threads EXCEPT ![t] =
              [th EXCEPT !.c = IF th.op = "encode"
                               THEN EncodeRound(th.c, shuffles[th.k])
                               ELSE DecodeRound(th.c, shuffles[th.k]),
                         !.k = IF th.op = "encode" THEN @ + 1 ELSE @ - 1]]
    /\ UNCHANGED <<constructed, ctor, self, seeded, last>>

\* lines 46-47 and 62-63: the loop is over and the call returns
Finish(t) ==
    /\ threads[t].pc = "loop"
    /\ threads[t].k \notin 1 .. Len(shuffles)
    /\ threads' = [threads EXCEPT ![t] =
          [@ EXCEPT !.pc = "done", !.ret = Return(threads[t].c)]]
    /\ UNCHANGED <<constructed, ctor, self, seeded, last>>

\* an object built from sample tables, with an even bit_size >= 2
InitThreads ==
    /\ constructed = TRUE
    /\ \E b \in {n \in BitSizes : n >= 2 /\ n % 2 = 0 /\ 2 * Pow2(n \div 2) <= MaxFullLen} :
       \E shs \in KeySchedules(b) :
          /\ ctor = [status |-> "ok", bit_size |-> b, rounds |-> Len(shs)]
          /\ bit_size = b
          /\ shuffles = shs
          /\ _size = HalfSize(b)
          /\ _x_mask = Pow2(HalfSize(b)) - 1
          /\ _y_mask = ShiftLeft(Pow2(HalfSize(b)) - 1, HalfSize(b))
          /\ _max_shuffle = Pow2(HalfSize(b))
    /\ seeded = NotSeeded
    /\ last = NoCall
    /\ threads = [t \in Threads |-> Idle]

BeginEncode == \E t \in Threads : \E value \in ThreadValues : Begin(t, "encode", value)

BeginDecode == \E t \in Threads : \E value \in ThreadValues : Begin(t, "decode", value)

RoundStep == \E t \in Threads : Round(t)

FinishStep == \E t \in Threads : Finish(t)

NextThreads ==
    \/ BeginEncode
    \/ BeginDecode
    \/ RoundStep
    \/ FinishStep

SpecThreads == InitThreads /\ [][NextThreads]_vars

-----------------------------------------------------------------------------
(* Properties.                                                             *)

\* range(2 ** bit_size)
Domain == 0 .. Pow2(bit_size) - 1

\* a constructed object with an even bit_size >= 2 and at least one round
\* table, every table of 2 * 2^(bit_size/2) entries in range(2^(bit_size/2))
ValidCipher ==
    /\ constructed
    /\ bit_size >= 2
    /\ bit_size % 2 = 0
    /\ Len(shuffles) >= 1
    /\ \A k \in 1 .. Len(shuffles) : ValidTable(shuffles[k], Pow2(bit_size \div 2))

\* the results of encode and of decode on the domain, as functions of the
\* object's state
EncodeMap == [v \in Domain |-> EncodeCall(v)]

DecodeMap == [v \in Domain |-> DecodeCall(v)]

\* C1: on a valid cipher encode maps range(2 ** bit_size) one-to-one onto
\* range(2 ** bit_size): every call returns an integer, no two arguments share
\* a result, the results are exactly the domain, and a completed call on an
\* argument of the domain has left such a result.
C1_EncodeBijection ==
    ValidCipher =>
        LET enc == EncodeMap
        IN  /\ \A v \in Domain : enc[v].kind = "int"
            /\ {enc[v].val : v \in Domain} = Domain
            /\ \A v, w \in Domain : enc[v].val = enc[w].val => v = w
            /\ (last.op = "encode" /\ last.arg \in Domain) =>
                  /\ last.kind = "int"
                  /\ last.val \in Domain
                  /\ last.val = enc[last.arg].val

C1_Witness ==
    /\ ValidCipher
    /\ bit_size = 4
    /\ Len(shuffles) = 2
    /\ last.op = "encode"
    /\ last.arg \in Domain
    /\ last.val # last.arg

\* C2: on a valid cipher decode(encode(v)) = v for every v of the domain: the
\* decode call whose argument was the result of encode(v) returns v.
C2_RoundTrip ==
    ValidCipher =>
        /\ LET enc == EncodeMap
               dec == [v \in Domain |-> DecodeCall(enc[v].val)]
           IN  \A v \in Domain :
                  /\ enc[v].kind = "int"
                  /\ dec[v].kind = "int"
                  /\ dec[v].val = v
        /\ (last.op = "decode" /\ last.fed /\ last.orig \in Domain) =>
              /\ last.kind = "int"
              /\ last.val = last.orig

C2_Witness ==
    /\ ValidCipher
    /\ bit_size = 4
    /\ Len(shuffles) = 2
    /\ last.op = "decode"
    /\ last.fed
    /\ last.orig \in Domain
    /\ last.arg # last.orig
    /\ last.val = last.orig

\* C3 (as claimed): a call of encode or decode with an argument outside
\* range(2 ** bit_size) returns no integer.
C3_DomainErrorRaised ==
    (constructed /\ last.op \in {"encode", "decode"} /\ last.arg \notin Domain)
        => last.kind # "int"

\* C4 (as claimed): no object is produced for an odd bit_size, a bit_size
\* below 2 or fewer than one round table.
C4_ConfigurationErrorRaised ==
    (ctor.status # "none"
     /\ (ctor.bit_size % 2 = 1 \/ ctor.bit_size < 2 \/ ctor.rounds < 1))
        => ~constructed

\* C6: a call never changes the object: in every step taken once the object
\* is constructed, bit_size, shuffles, _size, _x_mask, _y_mask and
\* _max_shuffle keep their values.
C6_Immutable == [][constructed => UNCHANGED self]_vars

C6_Witness ==
    /\ constructed
    /\ Len(shuffles) = 2
    /\ last.op = "decode"
    /\ last.fed
    /\ last.orig \notin Domain

\* C9: an object built with an odd bit_size is accepted with the half width
\* rounded down; every result of encode is then below 2 ** (bit_size - 1),
\* so encode does not cover range(2 ** bit_size) and is not one-to-one on it.
C9_OddBitSizeTruncates ==
    (constructed /\ bit_size % 2 = 1) =>
        LET enc == [v \in Values |-> EncodeCall(v)]
        IN  /\ ctor.status = "ok"
            /\ _size = (bit_size - 1) \div 2
            /\ \A v \in Values :
                  /\ enc[v].kind = "int"
                  /\ enc[v].val \in 0 .. Pow2(bit_size - 1) - 1
            /\ {enc[v].val : v \in Domain} # Domain
            /\ \E v, w \in Domain : v # w /\ enc[v].val = enc[w].val
            /\ (last.op = "encode") =>
                  (last.kind = "int" /\ last.val < Pow2(bit_size - 1))

C9_Witness ==
    /\ constructed
    /\ bit_size = 3
    /\ Len(shuffles) = 2
    /\ last.op = "encode"
    /\ last.arg = 7
    /\ last.val < 4

\* C10: on a valid cipher encode(decode(v)) = v for every v of the domain,
\* and decode maps the domain one-to-one onto the domain.
C10_DecodeRightInverse ==
    ValidCipher =>
        LET dec == DecodeMap
        IN  /\ \A v \in Domain : dec[v].kind = "int"
            /\ \A v \in Domain : EncodeCall(dec[v].val).kind = "int"
            /\ \A v \in Domain : EncodeCall(dec[v].val).val = v
            /\ {dec[v].val : v \in Domain} = Domain
            /\ \A v, w \in Domain : dec[v].val = dec[w].val => v = w
            /\ (last.op = "encode" /\ last.fed /\ last.orig \in Domain) =>
                  /\ last.kind = "int"
                  /\ last.val = last.orig

C10_Witness ==
    /\ ValidCipher
    /\ bit_size = 4
    /\ Len(shuffles) = 2
    /\ last.op = "encode"
    /\ last.fed
    /\ last.orig \in Domain
    /\ last.arg # last.orig
    /\ last.val = last.orig

\* the table indices a valid cipher may read: range(2 * max_shuffle)
TableIndices == 0 .. 2 * Pow2(bit_size \div 2) - 1

\* C5: decoding with another key does not fail.  With B a valid cipher and v
\* in the domain, the encode call made on the first object and the decode
\* call B makes on its result both return an integer of the domain and read
\* table indices in range(2 * max_shuffle) only; so does B's decode of every
\* value of the domain.
C5_NoWrongKeyFailure ==
    ValidCipher =>
        /\ \A v \in Domain :
              /\ DecodeCall(v).kind = "int"
              /\ DecodeCall(v).val \in Domain
              /\ DecodeCall(v).reads \subseteq TableIndices
              /\ EncodeCall(v).reads \subseteq TableIndices
        /\ (last.op = "encode" /\ last.arg \in Domain) =>
              /\ last.kind = "int"
              /\ last.val \in Domain
              /\ last.reads \subseteq TableIndices
        /\ (last.op = "decode" /\ last.fed /\ last.orig \in Domain) =>
              /\ last.kind = "int"
              /\ last.val \in Domain
              /\ last.reads \subseteq TableIndices

C5_Witness ==
    /\ ValidCipher
    /\ bit_size = 4
    /\ Len(shuffles) = 2
    /\ last.op = "decode"
    /\ last.fed
    /\ last.orig \in Domain
    /\ last.kind = "int"
    /\ last.val # last.orig
    /\ Cardinality(last.reads) = 4

\* the result of the call thread t makes, were it made alone
Alone(t) ==
    IF threads[t].op = "encode"
    THEN EncodeCall(threads[t].arg)
    ELSE DecodeCall(threads[t].arg)

\* a call that has returned has returned what the same call returns alone
ReturnsAsAlone ==
    \A t \in Threads :
        threads[t].pc = "done" =>
            /\ threads[t].ret.kind = Alone(t).kind
            /\ threads[t].ret.val = Alone(t).val

\* a step leaves the object as it is and writes the locals of one call only
WritesOwnLocals ==
    /\ UNCHANGED self
    /\ \E t \in Threads : \A u \in Threads \ {t} : threads'[u] = threads[u]

\* C7: whatever the interleaving of the threads' steps, every call returns
\* what it returns when run alone, and every step writes only the locals of
\* its own call, the object being read only.
C7_ThreadsDoNotInterfere == []ReturnsAsAlone /\ [][WritesOwnLocals]_vars

C7_Witness ==
    /\ Len(shuffles) = 2
    /\ threads[1].pc = "done"
    /\ threads[1].op = "encode"
    /\ threads[1].ret.val # threads[1].arg
    /\ threads[2].pc = "loop"
    /\ threads[2].op = "decode"
    /\ threads[2].k = 1
    /\ threads[2].c.x # threads[1].c.x

\* C8: a call from_seed(bit_size, seed, rounds) with an even bit_size >= 2
\* and rounds >= 1 returns an object of that bit_size holding exactly as many
\* tables as the rounds argument says, each of 2 * 2^(bit_size/2) entries,
\* every entry in range(2^(bit_size/2)), whatever randrange draws.
C8_SeedTablesValid ==
    (seeded.called /\ seeded.bit_size >= 2 /\ seeded.bit_size % 2 = 0
     /\ seeded.rounds >= 1) =>
        /\ constructed
        /\ ctor.status = "ok"
        /\ bit_size = seeded.bit_size
        /\ Len(shuffles) = seeded.rounds
        /\ \A k \in 1 .. seeded.rounds :
              /\ Len(shuffles[k]) = 2 * Pow2(seeded.bit_size \div 2)
              /\ \A i \in 1 .. 2 * Pow2(seeded.bit_size \div 2) :
                    shuffles[k][i] \in 0 .. Pow2(seeded.bit_size \div 2) - 1

C8_Witness ==
    /\ seeded.called
    /\ seeded.bit_size = 2
    /\ seeded.rounds = 2
    /\ constructed
    /\ Len(shuffles) = 2
    /\ shuffles[1] = <<1, 0, 1, 1>>
    /\ shuffles[2] = <<0, 1, 0, 0>>

====
